---- MODULE Spec2Model ----
(***************************************************************************)
(* BallotScope (app.py): a Streamlit script that loads a shapefile of US   *)
(* congressional districts through the memoized load_data, normalizes it   *)
(* (state-code filter, Alaska largest-polygon fix, removal of Alaska rows  *)
(* without geometry, reindexing, reprojection, land_ratio) and renders     *)
(* three charts.  The model follows one process: the script is re-run up   *)
(* to MaxRuns times, the st.cache_data cache of load_data lives across     *)
(* runs, and the file system may change under the script.                  *)
(*                                                                         *)
(* A table (GeoDataFrame) is a record                                      *)
(*   columns : the set of column names                                     *)
(*   index   : the row labels, one per row                                 *)
(*   rows    : the rows, each a function from column name to value         *)
(*   crs     : the coordinate reference system of the geometry column      *)
(* A STATEFP value is a string of decimal digits, held as a tuple of       *)
(* digits so that parsing it (astype(int)) and comparing it with '02' are  *)
(* two different things, as in the code.                                   *)
(* A geometry is a record with a field type: "Polygon" (ring, area),       *)
(* "MultiPolygon" (geoms, a sequence of polygons), "Point" (any type that  *)
(* is neither) or "None" (a null geometry).                                *)
(* A float (land_ratio) is a record [num, den]: den > 0 is the reduced     *)
(* fraction num/den, 1/0 and -1/0 are +inf and -inf, 0/0 is NaN.           *)
(***************************************************************************)
EXTENDS Integers, Sequences, FiniteSets

VARIABLES
    dirExists,   \* os.path.exists(shapefile_dir)
    fileExists,  \* os.path.exists(shapefile_path)
    corrupt,     \* gpd.read_file(shapefile_path) would raise
    file,        \* the table gpd.read_file(shapefile_path) would return
    cache,       \* st.cache_data store of load_data: path -> table or NoTable
    runs,        \* script runs finished so far in this process
    pc,          \* position of the current script run
    out,         \* elements emitted to the page by the current run
    charts,      \* charts rendered by the current run
    geo_df,      \* load_data: the table as read at line 47 (kept as history)
    is_alaska,   \* load_data: the boolean mask of line 60
    work,        \* load_data: the local gdf being transformed
    gdf,         \* main: the table load_data returned to this run
    bodyRuns     \* history: completed executions of the body of load_data

vars == <<dirExists, fileExists, corrupt, file, cache, runs, pc, out, charts,
          geo_df, is_alaska, work, gdf, bodyRuns>>

----------------------------------------------------------------------------
(* Bounds of the model *)

MaxRows == 2

MaxRuns == 2

----------------------------------------------------------------------------
(* Program constants *)

StateCodeLimit == 57

alaska_fips == <<0, 2>>

shapefile_path == "./shapefile/house_districts_2024.shp"

TargetCrs == "EPSG:4326"

----------------------------------------------------------------------------
(* Values *)

NoneGeom == [type |-> "None"]

PointGeom == [type |-> "Point"]

Poly(r, a) == [type |-> "Polygon", ring |-> r, area |-> a]

Multi(ps) == [type |-> "MultiPolygon", geoms |-> ps]

NoTable == [columns |-> {}, index |-> <<>>, rows |-> <<>>, crs |-> "none"]

NaN == [num |-> 0, den |-> 0]

Abs(n) == IF n < 0 THEN -n ELSE n

RECURSIVE Gcd(_, _)
Gcd(a, b) == IF b = 0 THEN a ELSE Gcd(b, a % b)

\* float division as pandas does it: x/0 is +-inf, 0/0 is NaN, no exception
Divide(a, b) ==
    IF b = 0
    THEN [num |-> (IF a > 0 THEN 1 ELSE IF a < 0 THEN -1 ELSE 0), den |-> 0]
    ELSE LET g == Gcd(Abs(a), Abs(b))
             s == IF b < 0 THEN -1 ELSE 1
         IN  [num |-> s * (a \div g), den |-> s * (b \div g)]

\* Series.fillna(0): only NaN is replaced, +-inf is kept
FillNa(x) == IF x = NaN THEN [num |-> 0, den |-> 1] ELSE x

\* str -> int of astype(int): the decimal value of the digit string
RECURSIVE ParseInt(_)
ParseInt(s) ==
    IF Len(s) = 0 THEN 0
    ELSE 10 * ParseInt(SubSeq(s, 1, Len(s) - 1)) + s[Len(s)]

\* df[c] = v on one row: the column is added, or overwritten when present
SetColumn(row, c, v) ==
    [k \in (DOMAIN row) \cup {c} |-> IF k = c THEN v ELSE row[k]]

\* df[mask]: the rows (and their labels) where the mask is True
RECURSIVE SelectByMask(_, _)
SelectByMask(s, mask) ==
    IF Len(s) = 0 THEN <<>>
    ELSE (IF Head(mask) THEN <<Head(s)>> ELSE <<>>)
         \o SelectByMask(Tail(s), Tail(mask))

BoolIndex(t, mask) ==
    [t EXCEPT !.index = SelectByMask(t.index, mask),
              !.rows = SelectByMask(t.rows, mask)]

\* reset_index(drop=True): labels 0 .. n-1
ResetIndex(t) == [t EXCEPT !.index = [i \in 1..Len(t.rows) |-> i - 1]]

----------------------------------------------------------------------------
(* get_largest_polygon *)

\* max(geoms, key=area): the first component of maximal area
RECURSIVE MaxByArea(_)
MaxByArea(ps) ==
    IF Len(ps) = 1 THEN ps[1]
    ELSE LET best == MaxByArea(SubSeq(ps, 1, Len(ps) - 1))
             last == ps[Len(ps)]
         IN  IF last.area > best.area THEN last ELSE best

\* mutant: the first component instead of the largest
get_largest_polygon_First(geometry) ==
    IF geometry.type = "MultiPolygon"
    THEN IF Len(geometry.geoms) = 0 THEN NoneGeom
         ELSE geometry.geoms[1]
    ELSE IF geometry.type = "Polygon" THEN geometry
    ELSE NoneGeom

\* mutant: an unsupported geometry is returned as it is instead of None
get_largest_polygon_KeepUnsupported(geometry) ==
    IF geometry.type = "MultiPolygon"
    THEN IF Len(geometry.geoms) = 0 THEN NoneGeom
         ELSE MaxByArea(geometry.geoms)
    ELSE geometry

get_largest_polygon(geometry) ==
    IF geometry.type = "MultiPolygon"
    THEN IF Len(geometry.geoms) = 0 THEN NoneGeom
         ELSE MaxByArea(geometry.geoms)
    ELSE IF geometry.type = "Polygon" THEN geometry
    ELSE NoneGeom

----------------------------------------------------------------------------
(* The transformation steps of load_data *)

\* mutant: the comparison is <= 57
FilterStates_Inclusive(t) ==
    LET withF == [i \in 1..Len(t.rows) |->
                     SetColumn(t.rows[i], "filter1", ParseInt(t.rows[i]["STATEFP"]))]
        mask == [i \in 1..Len(t.rows) |-> withF[i]["filter1"] <= 57]
    IN  BoolIndex([t EXCEPT !.columns = @ \cup {"filter1"}, !.rows = withF], mask)

\* lines 52-56: filter1 = int(STATEFP); keep filter1 < 57 (labels are kept)
FilterStates(t) ==
    LET withF == [i \in 1..Len(t.rows) |->
                     SetColumn(t.rows[i], "filter1", ParseInt(t.rows[i]["STATEFP"]))]
        mask == [i \in 1..Len(t.rows) |-> withF[i]["filter1"] < StateCodeLimit]
    IN  BoolIndex([t EXCEPT !.columns = @ \cup {"filter1"}, !.rows = withF], mask)

\* line 60: gdf['STATEFP'] == '02', a comparison of strings
AlaskaMask(t) == [i \in 1..Len(t.rows) |-> t.rows[i]["STATEFP"] = alaska_fips]

\* mutant: the largest polygon is taken for every row, not only Alaska's
AlaskaFix_AllRows(t, mask) ==
    [t EXCEPT !.rows = [i \in 1..Len(t.rows) |->
        SetColumn(t.rows[i], "geometry",
                  get_largest_polygon(t.rows[i]["geometry"]))]]

\* line 64: the Alaska geometries are replaced by their largest polygon
AlaskaFix(t, mask) ==
    [t EXCEPT !.rows = [i \in 1..Len(t.rows) |->
        IF mask[i]
        THEN SetColumn(t.rows[i], "geometry",
                       get_largest_polygon(t.rows[i]["geometry"]))
        ELSE t.rows[i]]]

IsNull(g) == g.type = "None"

\* mutant: no row is dropped
DropNullAlaska_KeepAll(t, mask) == ResetIndex(t)

\* lines 67-70: Alaska rows with a null geometry are dropped, then reindexed
DropNullAlaska(t, mask) ==
    ResetIndex(BoolIndex(t,
        [i \in 1..Len(t.rows) |-> ~(mask[i] /\ IsNull(t.rows[i]["geometry"]))]))

\* coordinates of one geometry transformed from a projected CRS to degrees:
\* the type and the ring are kept, the area (in the units of the CRS) changes
TransformGeom(g) ==
    IF g.type = "Polygon" THEN Poly(g.ring, g.area \div 5)
    ELSE IF g.type = "MultiPolygon"
    THEN Multi([i \in 1..Len(g.geoms) |->
                   Poly(g.geoms[i].ring, g.geoms[i].area \div 5)])
    ELSE g

\* mutant: the coordinates are transformed whatever the CRS of the table
ToCrs_Always(t) ==
    [t EXCEPT !.crs = "EPSG:4326",
              !.rows = [i \in 1..Len(t.rows) |->
                  SetColumn(t.rows[i], "geometry",
                            TransformGeom(t.rows[i]["geometry"]))]]

\* line 74: to_crs(epsg=4326); a table already in EPSG:4326 is unchanged
ToCrs(t) ==
    IF t.crs = TargetCrs THEN t
    ELSE [t EXCEPT !.crs = TargetCrs,
                   !.rows = [i \in 1..Len(t.rows) |->
                       SetColumn(t.rows[i], "geometry",
                                 TransformGeom(t.rows[i]["geometry"]))]]

\* line 78
ComputeLandRatio(t) ==
    [t EXCEPT !.columns = @ \cup {"land_ratio"},
              !.rows = [i \in 1..Len(t.rows) |->
                  SetColumn(t.rows[i], "land_ratio",
                            Divide(t.rows[i]["ALAND"],
                                   t.rows[i]["ALAND"] + t.rows[i]["AWATER"]))]]

\* mutant: NaN is left in the column
FillLandRatio_Skip(t) == t

\* line 81
FillLandRatio(t) ==
    [t EXCEPT !.rows = [i \in 1..Len(t.rows) |->
        SetColumn(t.rows[i], "land_ratio", FillNa(t.rows[i]["land_ratio"]))]]

\* lines 52-83 on a table already read
Transform(t) ==
    LET f == FilterStates(t)
        m == AlaskaMask(f)
    IN  FillLandRatio(ComputeLandRatio(ToCrs(
            DropNullAlaska(AlaskaFix(f, m), m))))

\* (gdf['STATEFP'] == alaska_fips).sum() of lines 61 and 71
AlaskaCount(t) == Cardinality({i \in 1..Len(t.rows) : t.rows[i]["STATEFP"] = alaska_fips})

----------------------------------------------------------------------------
(* The input datasets of the model *)

InputColumns == {"STATEFP", "GEOID", "ALAND", "AWATER", "geometry"}

Row(sf, gid, al, aw, g) ==
    [STATEFP |-> sf, GEOID |-> gid, ALAND |-> al, AWATER |-> aw, geometry |-> g]

\* district records a dataset may hold, each with its own GEOID
Records ==
    { Row(<<0, 2>>, "0200", 300, 100,
          Multi(<<Poly("a", 5), Poly("b", 100), Poly("c", 3)>>)),
      Row(<<0, 2>>, "0201", 0, 0, Multi(<<>>)),
      Row(<<0, 2>>, "0202", 100, 0, PointGeom),
      Row(<<0, 2>>, "0203", 0, 100, Poly("d", 40)),
      Row(<<0, 2>>, "0204", 100, 100, Multi(<<Poly("j", 9), Poly("k", 9)>>)),
      Row(<<0, 6>>, "0601", 300, 100, Poly("e", 60)),
      Row(<<0, 6>>, "0602", 100, 0, PointGeom),
      Row(<<1, 5>>, "1501", 0, 0, Multi(<<Poly("f", 7), Poly("g", 9)>>)),
      Row(<<5, 6>>, "5600", -100, 100, NoneGeom),
      Row(<<5, 7>>, "5700", 100, 100, Poly("h", 20)),
      Row(<<6, 0>>, "6000", 100, 300, Multi(<<Poly("i", 8)>>)) }

SourceCrs == {"EPSG:3857", "EPSG:4326"}

\* sequences of at most MaxRows distinct records
RowSeqs ==
    UNION { { s \in [1..n -> Records] : \A i, j \in 1..n : i # j => s[i] # s[j] }
            : n \in 0..MaxRows }

\* what gpd.read_file returns: the input columns, labels 0 .. n-1
Datasets ==
    { ResetIndex([columns |-> InputColumns, index |-> <<>>, rows |-> s, crs |-> c])
      : s \in RowSeqs, c \in SourceCrs }

----------------------------------------------------------------------------
(* State machine *)

Init ==
    /\ dirExists \in BOOLEAN
    /\ fileExists \in BOOLEAN
    /\ corrupt \in BOOLEAN
    /\ fileExists => dirExists
    /\ corrupt => fileExists
    /\ IF fileExists /\ ~corrupt THEN file \in Datasets ELSE file = NoTable
    /\ cache = [p \in {shapefile_path} |-> NoTable]
    /\ runs = 0
    /\ pc = "check_dir"
    /\ out = <<>>
    /\ charts = {}
    /\ geo_df = NoTable
    /\ is_alaska = <<>>
    /\ work = NoTable
    /\ gdf = NoTable
    /\ bodyRuns = 0

\* st.error(...) followed by st.stop(): the message is shown, the run ends
ErrorStop(what) ==
    /\ out' = Append(out, <<"error", what>>)
    /\ pc' = "stopped"

\* the points where the script looks at the file system
ReadsFileSystem == pc \in {"check_dir", "check_file", "ld_exists", "ld_read"}

\* The file system changes under the script.  A change matters only to the
\* next look at the file system, so the changes are taken right before one.
RemoveDir ==
    /\ ReadsFileSystem
    /\ dirExists
    /\ dirExists' = FALSE
    /\ fileExists' = FALSE
    /\ corrupt' = FALSE
    /\ file' = NoTable
    /\ UNCHANGED <<cache, runs, pc, out, charts, geo_df, is_alaska, work, gdf, bodyRuns>>

RemoveFile ==
    /\ ReadsFileSystem
    /\ fileExists
    /\ fileExists' = FALSE
    /\ corrupt' = FALSE
    /\ file' = NoTable
    /\ UNCHANGED <<dirExists, cache, runs, pc, out, charts, geo_df, is_alaska,
                   work, gdf, bodyRuns>>

CorruptFile ==
    /\ ReadsFileSystem
    /\ fileExists
    /\ ~corrupt
    /\ corrupt' = TRUE
    /\ file' = NoTable
    /\ UNCHANGED <<dirExists, fileExists, cache, runs, pc, out, charts, geo_df,
                   is_alaska, work, gdf, bodyRuns>>

\* the dataset is rewritten without its last record
RewriteFile ==
    /\ ReadsFileSystem
    /\ fileExists
    /\ ~corrupt
    /\ Len(file.rows) > 0
    /\ file' = ResetIndex([file EXCEPT !.rows = SubSeq(@, 1, Len(@) - 1)])
    /\ UNCHANGED <<dirExists, fileExists, corrupt, cache, runs, pc, out, charts,
                   geo_df, is_alaska, work, gdf, bodyRuns>>

\* main, lines 176-179
CheckDir ==
    /\ pc = "check_dir"
    /\ IF ~dirExists THEN ErrorStop("directory does not exist")
       ELSE pc' = "check_file" /\ out' = out
    /\ UNCHANGED <<dirExists, fileExists, corrupt, file, cache, runs, charts,
                   geo_df, is_alaska, work, gdf, bodyRuns>>

\* mutant: the message is shown but the run is not stopped
CheckFile_NoStop ==
    /\ pc = "check_file"
    /\ IF ~fileExists
       THEN out' = Append(out, <<"error", "shapefile does not exist">>)
            /\ pc' = "call_load"
       ELSE pc' = "call_load" /\ out' = out
    /\ UNCHANGED <<dirExists, fileExists, corrupt, file, cache, runs, charts,
                   geo_df, is_alaska, work, gdf, bodyRuns>>

\* main, lines 181-184
CheckFile ==
    /\ pc = "check_file"
    /\ IF ~fileExists THEN ErrorStop("shapefile does not exist")
       ELSE pc' = "call_load" /\ out' = out
    /\ UNCHANGED <<dirExists, fileExists, corrupt, file, cache, runs, charts,
                   geo_df, is_alaska, work, gdf, bodyRuns>>

\* what the st.cache_data wrapper of load_data does with a call
CacheLookup(c, path) == c[path]

\* mutant: the result is not stored
CacheStore_Forget(c, path, t) == c

CacheStore(c, path, t) == [c EXCEPT ![path] = t]

\* main, lines 187-188, and the wrapper of line 30: a hit returns the stored
\* table and the body of load_data is not entered
CallLoadData ==
    /\ pc = "call_load"
    /\ IF CacheLookup(cache, shapefile_path) # NoTable
       THEN gdf' = CacheLookup(cache, shapefile_path) /\ pc' = "tab_map"
       ELSE gdf' = gdf /\ pc' = "ld_exists"
    /\ UNCHANGED <<dirExists, fileExists, corrupt, file, cache, runs, out, charts,
                   geo_df, is_alaska, work, bodyRuns>>

\* load_data, lines 41-43
LdExists ==
    /\ pc = "ld_exists"
    /\ IF ~fileExists THEN ErrorStop("Shapefile not found")
       ELSE pc' = "ld_read" /\ out' = out
    /\ UNCHANGED <<dirExists, fileExists, corrupt, file, cache, runs, charts,
                   geo_df, is_alaska, work, gdf, bodyRuns>>

\* load_data, lines 46-50
LdRead ==
    /\ pc = "ld_read"
    /\ IF corrupt \/ ~fileExists
       THEN ErrorStop("Error loading shapefile") /\ geo_df' = geo_df
       ELSE geo_df' = file /\ pc' = "ld_filter" /\ out' = out
    /\ UNCHANGED <<dirExists, fileExists, corrupt, file, cache, runs, charts,
                   is_alaska, work, gdf, bodyRuns>>

\* load_data, lines 52-56
LdFilter ==
    /\ pc = "ld_filter"
    /\ work' = FilterStates(geo_df)
    /\ pc' = "ld_alaska"
    /\ UNCHANGED <<dirExists, fileExists, corrupt, file, cache, runs, out, charts,
                   geo_df, is_alaska, gdf, bodyRuns>>

\* load_data, lines 58-64
LdAlaska ==
    /\ pc = "ld_alaska"
    /\ is_alaska' = AlaskaMask(work)
    /\ out' = Append(out, <<"write", "Alaska records before", AlaskaCount(work)>>)
    /\ work' = AlaskaFix(work, is_alaska')
    /\ pc' = "ld_drop"
    /\ UNCHANGED <<dirExists, fileExists, corrupt, file, cache, runs, charts,
                   geo_df, gdf, bodyRuns>>

\* load_data, lines 66-71
LdDrop ==
    /\ pc = "ld_drop"
    /\ work' = DropNullAlaska(work, is_alaska)
    /\ out' = Append(out, <<"write", "Alaska records after", AlaskaCount(work')>>)
    /\ pc' = "ld_to_crs"
    /\ UNCHANGED <<dirExists, fileExists, corrupt, file, cache, runs, charts,
                   geo_df, is_alaska, gdf, bodyRuns>>

\* load_data, lines 73-75
LdToCrs ==
    /\ pc = "ld_to_crs"
    /\ work' = ToCrs(work)
    /\ out' = Append(out, <<"write", "CRS after projection", work'.crs>>)
    /\ pc' = "ld_ratio"
    /\ UNCHANGED <<dirExists, fileExists, corrupt, file, cache, runs, charts,
                   geo_df, is_alaska, gdf, bodyRuns>>

\* load_data, lines 77-83: the result is returned to main and the wrapper
\* stores it under the path
LdLandRatio ==
    /\ pc = "ld_ratio"
    /\ work' = FillLandRatio(ComputeLandRatio(work))
    /\ cache' = CacheStore(cache, shapefile_path, work')
    /\ gdf' = work'
    /\ bodyRuns' = bodyRuns + 1
    /\ pc' = "tab_map"
    /\ UNCHANGED <<dirExists, fileExists, corrupt, file, runs, out, charts,
                   geo_df, is_alaska>>

\* main, lines 196-205
TabChoropleth ==
    /\ pc = "tab_map"
    /\ charts' = charts \cup {"choropleth"}
    /\ pc' = "tab_hist"
    /\ UNCHANGED <<dirExists, fileExists, corrupt, file, cache, runs, out,
                   geo_df, is_alaska, work, gdf, bodyRuns>>

\* main, lines 210-218
TabHistogram ==
    /\ pc = "tab_hist"
    /\ charts' = charts \cup {"histogram"}
    /\ pc' = "tab_scatter"
    /\ UNCHANGED <<dirExists, fileExists, corrupt, file, cache, runs, out,
                   geo_df, is_alaska, work, gdf, bodyRuns>>

\* main, lines 223-238
TabScatter ==
    /\ pc = "tab_scatter"
    /\ charts' = charts \cup {"scatter"}
    /\ pc' = "done"
    /\ UNCHANGED <<dirExists, fileExists, corrupt, file, cache, runs, out,
                   geo_df, is_alaska, work, gdf, bodyRuns>>

\* the script is run again in the same process (a rerun of the page): the
\* page and the locals start afresh, the cache is kept
Rerun ==
    /\ pc \in {"done", "stopped"}
    /\ runs + 1 < MaxRuns
    /\ runs' = runs + 1
    /\ pc' = "check_dir"
    /\ out' = <<>>
    /\ charts' = {}
    /\ is_alaska' = <<>>
    /\ work' = NoTable
    /\ gdf' = NoTable
    /\ UNCHANGED <<dirExists, fileExists, corrupt, file, cache, geo_df, bodyRuns>>

Next ==
    \/ RemoveDir
    \/ RemoveFile
    \/ CorruptFile
    \/ RewriteFile
    \/ CheckDir
    \/ CheckFile
    \/ CallLoadData
    \/ LdExists
    \/ LdRead
    \/ LdFilter
    \/ LdAlaska
    \/ LdDrop
    \/ LdToCrs
    \/ LdLandRatio
    \/ TabChoropleth
    \/ TabHistogram
    \/ TabScatter
    \/ Rerun

Spec == Init /\ [][Next]_vars

----------------------------------------------------------------------------
(* Vocabulary of the properties *)

\* main holds the table load_data returned to this run
Loaded == gdf # NoTable

Column(t, c) == [i \in 1..Len(t.rows) |-> t.rows[i][c]]

Range(s) == {s[i] : i \in 1..Len(s)}

\* a geometry get_largest_polygon has no polygon for
Anomalous(g) ==
    \/ g.type \notin {"Polygon", "MultiPolygon"}
    \/ g.type = "MultiPolygon" /\ Len(g.geoms) = 0

\* the input rows the normalizer is to retain
Retained(r) ==
    /\ ParseInt(r["STATEFP"]) < 57
    /\ (r["STATEFP"] = <<0, 2>> => ~Anomalous(r["geometry"]))

\* the geometry of an input row as it stands in EPSG:4326
Reprojected(g) == IF geo_df.crs = "EPSG:4326" THEN g ELSE TransformGeom(g)

IsError(e) == e[1] = "error"

----------------------------------------------------------------------------
(* C1: every row of the table load_data returns has a state code, STATEFP  *)
(* parsed as an integer, strictly below 57; a row of state code 60 is      *)
(* never in the output.                                                    *)

C1_StateCodeBelow57 ==
    Loaded =>
        \A i \in 1..Len(gdf.rows) :
            /\ ParseInt(gdf.rows[i]["STATEFP"]) < 57
            /\ ParseInt(gdf.rows[i]["STATEFP"]) # 60

C1_Witness ==
    /\ Loaded
    /\ Len(gdf.rows) > 0
    /\ \E i \in 1..Len(geo_df.rows) : ParseInt(geo_df.rows[i]["STATEFP"]) = 60

----------------------------------------------------------------------------
(* C2, as claimed: every row of the table load_data returns has a          *)
(* single-polygon geometry, never a multi-part one, whatever its state     *)
(* code.  Stated on the rows whose input geometry is a polygon or a        *)
(* multi-part geometry, so that a violation is a multi-part geometry in    *)
(* the output and not a null or unsupported one.                           *)

C2_AllSinglePolygon ==
    Loaded =>
        \A i \in 1..Len(gdf.rows) :
            /\ gdf.rows[i]["geometry"].type # "MultiPolygon"
            /\ \A j \in 1..Len(geo_df.rows) :
                  (/\ geo_df.rows[j]["GEOID"] = gdf.rows[i]["GEOID"]
                   /\ geo_df.rows[j]["geometry"].type \in {"Polygon", "MultiPolygon"})
                  => gdf.rows[i]["geometry"].type = "Polygon"

(* C2, amended: every Alaska row (STATEFP = '02') of the table load_data   *)
(* returns has a single-polygon geometry; rows of other states keep the    *)
(* geometry type of the input, multi-part included.                        *)

C2_AlaskaSinglePolygon ==
    Loaded =>
        \A i \in 1..Len(gdf.rows) :
            IF gdf.rows[i]["STATEFP"] = <<0, 2>>
            THEN gdf.rows[i]["geometry"].type = "Polygon"
            ELSE \E j \in 1..Len(geo_df.rows) :
                    /\ geo_df.rows[j]["GEOID"] = gdf.rows[i]["GEOID"]
                    /\ geo_df.rows[j]["geometry"].type = gdf.rows[i]["geometry"].type

C2_Witness ==
    /\ Loaded
    /\ \E i \in 1..Len(gdf.rows), j \in 1..Len(geo_df.rows) :
          /\ gdf.rows[i]["STATEFP"] = <<0, 2>>
          /\ geo_df.rows[j]["GEOID"] = gdf.rows[i]["GEOID"]
          /\ geo_df.rows[j]["geometry"].type = "MultiPolygon"
    /\ \E i \in 1..Len(gdf.rows) :
          /\ gdf.rows[i]["STATEFP"] # <<0, 2>>
          /\ gdf.rows[i]["geometry"].type = "MultiPolygon"

----------------------------------------------------------------------------
(* C3: for every output row with ALAND >= 0 and AWATER >= 0, land_ratio is *)
(* defined (not NaN), lies in [0, 1], equals ALAND / (ALAND + AWATER) when *)
(* ALAND + AWATER > 0 (300 and 100 give 0.75), and is 0 when both are 0.   *)

C3_LandRatio ==
    Loaded =>
        \A i \in 1..Len(gdf.rows) :
            LET r == gdf.rows[i]
                a == r["ALAND"]
                w == r["AWATER"]
                q == r["land_ratio"]
            IN  (a >= 0 /\ w >= 0) =>
                    /\ q # NaN
                    /\ q.den > 0
                    /\ 0 <= q.num /\ q.num <= q.den
                    /\ (a + w > 0 => q.num * (a + w) = a * q.den)
                    /\ (a = 300 /\ w = 100 => 4 * q.num = 3 * q.den)
                    /\ (a = 0 /\ w = 0 => q.num = 0)

C3_Witness ==
    /\ Loaded
    /\ \E i, j \in 1..Len(gdf.rows) :
          /\ gdf.rows[i]["ALAND"] = 300 /\ gdf.rows[i]["AWATER"] = 100
          /\ gdf.rows[i]["STATEFP"] # <<0, 2>>
          /\ gdf.rows[i]["land_ratio"] = [num |-> 3, den |-> 4]
          /\ gdf.rows[j]["ALAND"] = 0 /\ gdf.rows[j]["AWATER"] = 0
          /\ gdf.rows[j]["land_ratio"] = [num |-> 0, den |-> 1]

----------------------------------------------------------------------------
(* C4: right after the Alaska fix (line 64) every row whose STATEFP is     *)
(* '02' holds the result of get_largest_polygon on its input geometry: a   *)
(* single polygon is unchanged, a multi-part geometry with at least one    *)
(* component has become one of its own components, of area >= the area of  *)
(* every component; components of area 5, 100, 3 give the one of area 100. *)

C4_AlaskaLargestPolygon ==
    pc = "ld_drop" =>
        \A i \in 1..Len(work.rows) :
            LET before == geo_df.rows[work.index[i] + 1]["geometry"]
                after == work.rows[i]["geometry"]
            IN  work.rows[i]["STATEFP"] = <<0, 2>> =>
                    /\ is_alaska[i]
                    /\ before.type = "Polygon" => after = before
                    /\ (before.type = "MultiPolygon" /\ Len(before.geoms) > 0) =>
                          /\ after \in Range(before.geoms)
                          /\ \A k \in 1..Len(before.geoms) :
                                after.area >= before.geoms[k].area
                    /\ (before.type = "MultiPolygon"
                          /\ Len(before.geoms) = 3
                          /\ {before.geoms[k].area : k \in 1..3} = {5, 100, 3}) =>
                          after.area = 100

C4_Witness ==
    /\ pc = "ld_drop"
    /\ \E i \in 1..Len(work.rows) :
          /\ work.rows[i]["STATEFP"] = <<0, 2>>
          /\ geo_df.rows[work.index[i] + 1]["geometry"].type = "MultiPolygon"
          /\ Len(geo_df.rows[work.index[i] + 1]["geometry"].geoms) = 3
          /\ work.rows[i]["geometry"] = Poly("b", 100)
    /\ \E i \in 1..Len(work.rows) :
          /\ work.rows[i]["STATEFP"] = <<0, 2>>
          /\ geo_df.rows[work.index[i] + 1]["geometry"].type = "Polygon"

----------------------------------------------------------------------------
(* C5: an Alaska row whose geometry is a multi-part geometry without       *)
(* components, or of an unsupported type, is absent from the table from    *)
(* the removal step on and from the table load_data returns; the removal   *)
(* is silent: no error is emitted, the run is not stopped, and the other   *)
(* rows of state code < 57 are all there.                                  *)

C5_Table == IF pc \in {"ld_to_crs", "ld_ratio"} THEN work ELSE gdf

C5_SilentRemoval ==
    (pc \in {"ld_to_crs", "ld_ratio"} \/ Loaded) =>
        /\ \A j \in 1..Len(geo_df.rows) :
              LET r == geo_df.rows[j]
              IN  IF r["STATEFP"] = <<0, 2>> /\ Anomalous(r["geometry"])
                  THEN r["GEOID"] \notin Range(Column(C5_Table, "GEOID"))
                  ELSE ParseInt(r["STATEFP"]) < 57 =>
                          r["GEOID"] \in Range(Column(C5_Table, "GEOID"))
        /\ pc # "stopped"
        /\ \A k \in 1..Len(out) : ~IsError(out[k])

C5_Witness ==
    /\ Loaded
    /\ pc = "done"
    /\ Len(gdf.rows) > 0
    /\ \E j \in 1..Len(geo_df.rows) :
          /\ geo_df.rows[j]["STATEFP"] = <<0, 2>>
          /\ geo_df.rows[j]["geometry"] = Multi(<<>>)

C5_WitnessUnsupported ==
    /\ Loaded
    /\ Len(gdf.rows) > 0
    /\ \E j \in 1..Len(geo_df.rows) :
          /\ geo_df.rows[j]["STATEFP"] = <<0, 2>>
          /\ geo_df.rows[j]["geometry"] = PointGeom

----------------------------------------------------------------------------
(* C6: idempotence.  The table load_data returns is the transformation     *)
(* (lines 52-83) of the table read, and applying the transformation to it  *)
(* again gives the same table: rows, order, labels, columns, geometries,   *)
(* CRS and land_ratio values.                                              *)

C6_Idempotent ==
    Loaded =>
        /\ gdf = Transform(geo_df)
        /\ Transform(gdf) = gdf

C6_Witness ==
    /\ Loaded
    /\ geo_df.crs # "EPSG:4326"
    /\ Len(gdf.rows) < Len(geo_df.rows)
    /\ \E i \in 1..Len(gdf.rows) :
          /\ gdf.rows[i]["STATEFP"] = <<0, 2>>
          /\ gdf.rows[i]["geometry"] = Poly("b", 20)

----------------------------------------------------------------------------
(* C7: when the directory or the shapefile does not exist, or reading the  *)
(* file raises, the step that finds it emits an error message and stops    *)
(* the run; a stopped run has read and transformed nothing further, has    *)
(* rendered no chart and does nothing more (until the script is rerun).    *)

C7_Failure ==
    \/ pc = "check_dir" /\ ~dirExists
    \/ pc = "check_file" /\ ~fileExists
    \/ pc = "ld_exists" /\ ~fileExists
    \/ pc = "ld_read" /\ (corrupt \/ ~fileExists)

C7_ErrorThenHalt ==
    [][ /\ (C7_Failure /\ pc' # pc) =>
              /\ pc' = "stopped"
              /\ Len(out') = Len(out) + 1
              /\ IsError(out'[Len(out')])
              /\ charts' = {} /\ work' = NoTable /\ gdf' = NoTable
              /\ geo_df' = geo_df
        /\ pc = "stopped" =>
              /\ charts = {} /\ work = NoTable /\ gdf = NoTable
              /\ \E k \in 1..Len(out) : IsError(out[k])
              /\ (pc' = "stopped" /\ charts' = charts /\ work' = work
                    /\ gdf' = gdf /\ out' = out /\ geo_df' = geo_df
                    /\ cache' = cache)
                 \/ (pc' = "check_dir" /\ runs' = runs + 1)
        /\ charts' # {} => \A k \in 1..Len(out') : ~IsError(out'[k])
      ]_vars

C7_WitnessDir == pc = "stopped" /\ out = <<<<"error", "directory does not exist">>>>

C7_WitnessParse == pc = "stopped" /\ out = <<<<"error", "Error loading shapefile">>>>

----------------------------------------------------------------------------
(* C8: memoization.  Once load_data has returned a table for the path, the *)
(* cache entry never changes, the body of load_data is not entered again   *)
(* and the file is not read again: every later call returns the stored     *)
(* table, so the body completes at most once.                              *)

C8_BodyPcs == {"ld_exists", "ld_read", "ld_filter", "ld_alaska", "ld_drop",
               "ld_to_crs", "ld_ratio"}

C8_Memoized ==
    [][ /\ cache[shapefile_path] # NoTable =>
              /\ cache' = cache
              /\ bodyRuns' = bodyRuns
              /\ geo_df' = geo_df
              /\ pc' \notin C8_BodyPcs
        /\ (cache[shapefile_path] # NoTable /\ pc = "call_load" /\ pc' # pc) =>
              gdf' = cache[shapefile_path]
        /\ bodyRuns' <= 1
        /\ bodyRuns' > bodyRuns => cache'[shapefile_path] = gdf' /\ gdf' # NoTable
      ]_vars

C8_Witness ==
    /\ runs >= 1
    /\ Loaded
    /\ work = NoTable
    /\ bodyRuns = 1
    /\ gdf = cache[shapefile_path]
    /\ (file # geo_df \/ ~fileExists \/ corrupt)

----------------------------------------------------------------------------
(* C9, as claimed: the columns of the table load_data returns are the      *)
(* columns of the input dataset plus land_ratio, no more and no fewer.     *)

C9_ColumnsInputPlusLandRatio ==
    Loaded =>
        /\ gdf.columns = geo_df.columns \cup {"land_ratio"}
        /\ \A i \in 1..Len(gdf.rows) :
              DOMAIN gdf.rows[i] = geo_df.columns \cup {"land_ratio"}

----------------------------------------------------------------------------
(* C10: the Alaska fix and the removal leave the rows of other states      *)
(* alone.  Before reprojection every input row of state code < 57 that is  *)
(* not an Alaska row is in the table exactly once with its geometry,       *)
(* GEOID, ALAND and AWATER unchanged; the retained rows are in input order *)
(* and labelled 0, 1, 2, ...; the same holds of the table returned, with   *)
(* the geometry reprojected.                                               *)

C10_Frame(t, reprojected) ==
    /\ \A j \in 1..Len(geo_df.rows) :
          LET r == geo_df.rows[j]
          IN  (ParseInt(r["STATEFP"]) < 57 /\ r["STATEFP"] # <<0, 2>>) =>
                 /\ Cardinality({i \in 1..Len(t.rows) :
                                    t.rows[i]["GEOID"] = r["GEOID"]}) = 1
                 /\ \A i \in 1..Len(t.rows) :
                       t.rows[i]["GEOID"] = r["GEOID"] =>
                          /\ t.rows[i]["geometry"] =
                                (IF reprojected THEN Reprojected(r["geometry"])
                                 ELSE r["geometry"])
                          /\ t.rows[i]["STATEFP"] = r["STATEFP"]
                          /\ t.rows[i]["ALAND"] = r["ALAND"]
                          /\ t.rows[i]["AWATER"] = r["AWATER"]
    /\ Column(t, "GEOID") = Column([rows |-> SelectSeq(geo_df.rows, Retained)], "GEOID")
    /\ t.index = [i \in 1..Len(t.rows) |-> i - 1]

C10_OtherStatesUntouched ==
    /\ pc = "ld_to_crs" => C10_Frame(work, FALSE)
    /\ Loaded => C10_Frame(gdf, TRUE)

C10_Witness ==
    /\ pc = "ld_to_crs"
    /\ Len(work.rows) = 1
    /\ Len(geo_df.rows) = 2
    /\ work.rows[1]["GEOID"] = geo_df.rows[2]["GEOID"]
    /\ work.rows[1]["geometry"].type = "MultiPolygon"
    /\ work.index = <<0>>

C10_WitnessNull ==
    /\ Loaded
    /\ \E i \in 1..Len(gdf.rows) :
          /\ gdf.rows[i]["STATEFP"] = <<5, 6>>
          /\ gdf.rows[i]["geometry"] = NoneGeom

====
